---------------------------- MODULE Spec2Model ----------------------------
(***************************************************************************)
(* Model of api/dobby.js: the serverless proxy handler that forwards a     *)
(* chat-completion request to the Fireworks API with a server-held key.    *)
(*                                                                         *)
(* JavaScript values are records of one shape (t is the type tag), so that *)
(* any two of them can be compared.  A JavaScript string is a sequence of  *)
(* pieces: a piece is either one special character (a double quote, a      *)
(* backslash, a line feed) or a run of ordinary characters.  A serialised  *)
(* JSON text is such a string too, with every structural character a piece *)
(* of its own.                                                             *)
(***************************************************************************)
EXTENDS Integers, Sequences, FiniteSets, TLC

\* Number of invocations of handler that the hosting runtime runs concurrently.
NumInvocations == 2

Invocations == 1..NumInvocations

-----------------------------------------------------------------------------
(* JavaScript values *)

JSValue(type, num, str, names, elems) ==
    [t |-> type, n |-> num, s |-> str, keys |-> names, items |-> elems]

Undefined == JSValue("undefined", 0, <<>>, <<>>, <<>>)

Null == JSValue("null", 0, <<>>, <<>>, <<>>)

Num(k) == JSValue("number", k, <<>>, <<>>, <<>>)

Str(pieces) == JSValue("string", 0, pieces, <<>>, <<>>)

Arr(elems) == JSValue("array", 0, <<>>, <<>>, elems)

\* An object: keys[k] (a string, as pieces) is the name of the property whose
\* value is items[k].
Obj(names, elems) == JSValue("object", 0, <<>>, names, elems)

\* An Error object: name in keys[1], message in s.
Err(name, message) == JSValue("error", 0, message, <<name>>, <<>>)

\* The Response object fetch resolves with: only its status is read.
Response(status) == JSValue("response", status, <<>>, <<>>, <<>>)

\* FIREWORKS_KEY === undefined in place of !FIREWORKS_KEY.
Falsy_UndefinedOnly(v) == v.t = "undefined"

\* FIREWORKS_KEY === "" in place of !FIREWORKS_KEY.
Falsy_EmptyStringOnly(v) == v.t = "string" /\ v.s = <<>>

\* !v of JavaScript, for the value types process.env can hold.
Falsy(v) ==
    \/ v.t \in {"undefined", "null"}
    \/ v.t = "string" /\ v.s = <<>>
    \/ v.t = "number" /\ v.n = 0

-----------------------------------------------------------------------------
(* JSON.stringify *)

Digit(d) ==
    CASE d = 0 -> "0" [] d = 1 -> "1" [] d = 2 -> "2" [] d = 3 -> "3"
      [] d = 4 -> "4" [] d = 5 -> "5" [] d = 6 -> "6" [] d = 7 -> "7"
      [] d = 8 -> "8" [] d = 9 -> "9"

RECURSIVE Digits(_)
Digits(k) == IF k < 10 THEN Digit(k) ELSE Digits(k \div 10) \o Digit(k % 10)

\* Number::toString for the integers.
NumberToString(k) == IF k < 0 THEN "-" \o Digits(0 - k) ELSE Digits(k)

\* The escape of one piece of a string inside a JSON string literal.
EscapePiece(p) ==
    CASE p = "\"" -> <<"\\", "\"">>
      [] p = "\\" -> <<"\\", "\\">>
      [] p = "\n" -> <<"\\", "n">>
      [] OTHER -> <<p>>

RECURSIVE EscapePieces(_)
EscapePieces(s) ==
    IF s = <<>> THEN <<>> ELSE EscapePiece(Head(s)) \o EscapePieces(Tail(s))

\* The string between double quotes, with nothing escaped.
QuoteJSONString_Unescaped(s) == <<"\"">> \o s \o <<"\"">>

\* QuoteJSONString of ECMAScript: the string between double quotes, escaped.
QuoteJSONString(s) == <<"\"">> \o EscapePieces(s) \o <<"\"">>

RECURSIVE SerializeJSONProperty(_), SerializeJSONArray(_, _), SerializeJSONObject(_, _, _)

\* The pieces of the JSON text of v; <<>> stands for "undefined" (no text).
SerializeJSONProperty(v) ==
    CASE v.t = "null" -> <<"null">>
      [] v.t = "number" -> <<NumberToString(v.n)>>
      [] v.t = "string" -> QuoteJSONString(v.s)
      [] v.t = "array" -> <<"[">> \o SerializeJSONArray(v.items, 1) \o <<"]">>
      [] v.t = "object" -> <<"{">> \o SerializeJSONObject(v.keys, v.items, TRUE) \o <<"}">>
      [] OTHER -> <<>>

\* The elements from the k-th on, comma separated; an undefined element is null.
SerializeJSONArray(elems, k) ==
    IF k > Len(elems) THEN <<>>
    ELSE LET strP == SerializeJSONProperty(elems[k])
         IN  (IF k > 1 THEN <<",">> ELSE <<>>)
             \o (IF strP = <<>> THEN <<"null">> ELSE strP)
             \o SerializeJSONArray(elems, k + 1)

\* The members name:value, comma separated; an undefined member is left out.
SerializeJSONObject(names, elems, first) ==
    IF names = <<>> THEN <<>>
    ELSE LET strP == SerializeJSONProperty(Head(elems))
         IN  IF strP = <<>>
             THEN SerializeJSONObject(Tail(names), Tail(elems), first)
             ELSE (IF first THEN <<>> ELSE <<",">>)
                  \o QuoteJSONString(Head(names)) \o <<":">> \o strP
                  \o SerializeJSONObject(Tail(names), Tail(elems), FALSE)

\* JSON.stringify(v): a string, or undefined when v has no JSON text.
JSONstringify(v) ==
    LET str == SerializeJSONProperty(v)
    IN  IF str = <<>> THEN Undefined ELSE Str(str)

-----------------------------------------------------------------------------
(* String(err) *)

\* ToString of ECMAScript; for an Error object, Error.prototype.toString.
String(v) ==
    CASE v.t = "string" -> v
      [] v.t = "undefined" -> Str(<<"undefined">>)
      [] v.t = "null" -> Str(<<"null">>)
      [] v.t = "number" -> Str(<<NumberToString(v.n)>>)
      [] v.t = "error" ->
            IF v.keys[1] = <<>> THEN Str(v.s)
            ELSE IF v.s = <<>> THEN Str(v.keys[1])
            ELSE Str(v.keys[1] \o <<": ">> \o v.s)
      [] OTHER -> Str(<<"[object Object]">>)

-----------------------------------------------------------------------------
(* The response object res of the hosting runtime *)

\* A response nothing was written to yet: Node's default status, no header,
\* no body, not ended.
FreshRes == [statusCode |-> 200, contentType |-> "", body |-> Undefined, ended |-> 0]

\* res.status(code)
ResStatus(res0, code) == [res0 EXCEPT !.statusCode = code]

\* res.setHeader("Content-Type", value)
ResSetContentType(res0, value) == [res0 EXCEPT !.contentType = value]

\* res.send(body): the body is written and the response is ended.
ResSend(res0, body) == [res0 EXCEPT !.body = body, !.ended = @ + 1]

\* res.json(obj): the JSON text of obj, sent as application/json.
ResJson(res0, obj) == ResSend(ResSetContentType(res0, "application/json"), JSONstringify(obj))

-----------------------------------------------------------------------------
(* The constants of handler *)

FORWARD_URL == "https://api.fireworks.ai/inference/v1/chat/completions"

\* { error: "Method not allowed, POST only" }
MethodNotAllowedBody == Obj(<< <<"error">> >>, << Str(<<"Method not allowed, POST only">>) >>)

\* { error: "FIREWORKS_API_KEY not configured in environment" }
MissingKeyBody ==
    Obj(<< <<"error">> >>, << Str(<<"FIREWORKS_API_KEY not configured in environment">>) >>)

\* details: err.message in place of String(err).
ProxyFailedBody_Message(e) ==
    Obj(<< <<"error">>, <<"details">> >>, << Str(<<"Proxy failed">>), Str(e.s) >>)

\* { error: "Proxy failed", details: String(err) }
ProxyFailedBody(e) ==
    Obj(<< <<"error">>, <<"details">> >>, << Str(<<"Proxy failed">>), String(e) >>)

\* `Bearer ${FIREWORKS_KEY}`
BearerHeader(k) == Str(<<"Bearer ">> \o String(k).s)

\* A bearer token found in the inbound body is passed on in place of the key.
UpstreamRequest_ClientKey(k, body) ==
    [url |-> FORWARD_URL,
     method |-> "POST",
     authorization |-> IF body.t = "string" THEN BearerHeader(body) ELSE BearerHeader(k),
     contentType |-> "application/json",
     body |-> JSONstringify(body)]

\* The request handed to fetch: the URL and the init object.
UpstreamRequest(k, body) ==
    [url |-> FORWARD_URL,
     method |-> "POST",
     authorization |-> BearerHeader(k),
     contentType |-> "application/json",
     body |-> JSONstringify(body)]

-----------------------------------------------------------------------------
(* The inputs: what the callers, the environment and the upstream can supply *)

\* req.method of an inbound request.
Methods == {"POST", "GET"}

\* {"model":"dobby-70b","max_tokens":256,"stop":null,
\*  "messages":[{"role":"user","content":"hi"}]}
ChatRequest ==
    Obj(<< <<"model">>, <<"max_tokens">>, <<"stop">>, <<"messages">> >>,
        << Str(<<"dobby-70b">>), Num(256), Null,
           Arr(<< Obj(<< <<"role">>, <<"content">> >>,
                      << Str(<<"user">>), Str(<<"hi">>) >>) >>) >>)

\* req.body of an inbound request: an object (with a string, a number, a null
\* and an array in it), an array, a string (say "hi", quotes included), or no
\* body at all.
Bodies ==
    {ChatRequest,
     Arr(<<Num(7), Null>>),
     Str(<<"say ", "\"", "hi", "\"">>),
     Undefined}

\* process.env.FIREWORKS_API_KEY: unset, set to the empty string, or a key.
EnvKeys == {Undefined, Str(<<>>), Str(<<"fw_3ZkeyA">>)}

\* The status codes the upstream answers with.
UpstreamStatuses == {200, 429}

\* {"choices":[{"message":{"content":"hello"}}]}
ChatCompletionText ==
    Str(<<"{", "\"", "choices", "\"", ":", "[", "{", "\"", "message", "\"", ":",
          "{", "\"", "content", "\"", ":", "\"", "hello", "\"", "}", "}", "]", "}">>)

\* The body texts the upstream answers with: a JSON text, and the HTML error
\* page of a gateway in front of it.
UpstreamTexts == {ChatCompletionText, Str(<<"<html>Too Many Requests</html>">>)}

\* What fetch rejects with.
FetchErrors == {Err(<<"TypeError">>, <<"fetch failed">>)}

\* What r.text() rejects with.
TextErrors == {Err(<<"TypeError">>, <<"terminated">>)}

-----------------------------------------------------------------------------
(* The state *)

VARIABLES
    env,        \* process.env.FIREWORKS_API_KEY
    pc,         \* pc[i]: where invocation i of handler is
    req,        \* req[i]: the inbound request of invocation i
    res,        \* res[i]: the response object of invocation i
    key,        \* key[i]: the local FIREWORKS_KEY
    r,          \* r[i]: the local r, the upstream Response
    text,       \* text[i]: the local text
    fetchCalls, \* fetchCalls[i]: the requests invocation i handed to fetch
    fetchP,     \* fetchP[i]: the promise fetch returned
    textP,      \* textP[i]: the promise r.text() returned
    log         \* log[i]: what invocation i wrote with console.error

vars == <<env, pc, req, res, key, r, text, fetchCalls, fetchP, textP, log>>

\* A promise: its state, and the value or the reason it settled with.
NoPromise == [state |-> "none", value |-> Undefined]

PendingPromise == [state |-> "pending", value |-> Undefined]

Fulfilled(v) == [state |-> "fulfilled", value |-> v]

Rejected(e) == [state |-> "rejected", value |-> e]

NoRequest == [method |-> "", body |-> Undefined]

Init ==
    /\ env \in EnvKeys
    /\ pc = [i \in Invocations |-> "idle"]
    /\ req = [i \in Invocations |-> NoRequest]
    /\ res = [i \in Invocations |-> FreshRes]
    /\ key = [i \in Invocations |-> Undefined]
    /\ r = [i \in Invocations |-> Undefined]
    /\ text = [i \in Invocations |-> Undefined]
    /\ fetchCalls = [i \in Invocations |-> <<>>]
    /\ fetchP = [i \in Invocations |-> NoPromise]
    /\ textP = [i \in Invocations |-> NoPromise]
    /\ log = [i \in Invocations |-> <<>>]

-----------------------------------------------------------------------------
(* handler, from its entry to the first await *)

\* GET is let through as POST is.
MethodRejected_GetAllowed(method) == method \notin {"POST", "GET"}

\* req.method !== "POST"
MethodRejected(method) == method # "POST"

\* The runtime calls handler(req, res): the method check, the key check and
\* the call of fetch run without a suspension.
HandlerEntry(i, method, body) ==
    /\ pc[i] = "idle"
    /\ req' = [req EXCEPT ![i] = [method |-> method, body |-> body]]
    /\ IF MethodRejected(method)
       THEN /\ res' = [res EXCEPT ![i] = ResJson(ResStatus(@, 405), MethodNotAllowedBody)]
            /\ pc' = [pc EXCEPT ![i] = "done"]
            /\ UNCHANGED <<key, fetchCalls, fetchP>>
       ELSE /\ key' = [key EXCEPT ![i] = env]
            /\ IF Falsy(env)
               THEN /\ res' = [res EXCEPT ![i] = ResJson(ResStatus(@, 500), MissingKeyBody)]
                    /\ pc' = [pc EXCEPT ![i] = "done"]
                    /\ UNCHANGED <<fetchCalls, fetchP>>
               ELSE /\ fetchCalls' =
                           [fetchCalls EXCEPT ![i] = Append(@, UpstreamRequest(env, body))]
                    /\ fetchP' = [fetchP EXCEPT ![i] = PendingPromise]
                    /\ pc' = [pc EXCEPT ![i] = "awaitFetch"]
                    /\ UNCHANGED res
    /\ UNCHANGED <<env, r, text, textP, log>>

-----------------------------------------------------------------------------
(* The upstream call, as the transport settles it *)

\* The upstream's status line and headers arrive: fetch fulfils.
FetchFulfil(i, status) ==
    /\ fetchP[i].state = "pending"
    /\ fetchP' = [fetchP EXCEPT ![i] = Fulfilled(Response(status))]
    /\ UNCHANGED <<env, pc, req, res, key, r, text, fetchCalls, textP, log>>

\* The upstream cannot be reached: fetch rejects.
FetchReject(i, e) ==
    /\ fetchP[i].state = "pending"
    /\ fetchP' = [fetchP EXCEPT ![i] = Rejected(e)]
    /\ UNCHANGED <<env, pc, req, res, key, r, text, fetchCalls, textP, log>>

\* The upstream's body has been read to its end: r.text() fulfils.
TextFulfil(i, t) ==
    /\ textP[i].state = "pending"
    /\ textP' = [textP EXCEPT ![i] = Fulfilled(t)]
    /\ UNCHANGED <<env, pc, req, res, key, r, text, fetchCalls, fetchP, log>>

\* The connection breaks while the body is read: r.text() rejects.
TextReject(i, e) ==
    /\ textP[i].state = "pending"
    /\ textP' = [textP EXCEPT ![i] = Rejected(e)]
    /\ UNCHANGED <<env, pc, req, res, key, r, text, fetchCalls, fetchP, log>>

-----------------------------------------------------------------------------
(* handler, resumed *)

\* const r = await fetch(...) resumes with the Response; r.text() is called.
HandlerAfterFetch(i) ==
    /\ pc[i] = "awaitFetch"
    /\ fetchP[i].state = "fulfilled"
    /\ r' = [r EXCEPT ![i] = fetchP[i].value]
    /\ textP' = [textP EXCEPT ![i] = PendingPromise]
    /\ pc' = [pc EXCEPT ![i] = "awaitText"]
    /\ UNCHANGED <<env, req, res, key, text, fetchCalls, fetchP, log>>

\* res.status(r.status).json(text): the text is serialised once more.
RelayResponse_JsonEncoded(res0, upstream, body) ==
    ResJson(ResStatus(res0, upstream.n), body)

\* res.status(r.status).setHeader("Content-Type", "application/json"); res.send(text)
RelayResponse(res0, upstream, body) ==
    ResSend(ResSetContentType(ResStatus(res0, upstream.n), "application/json"), body)

\* text kept in a variable of the module, not of the invocation: the text
\* relayed is the one any invocation read last.
HandlerRelay_SharedText(i) ==
    /\ pc[i] = "awaitText"
    /\ textP[i].state = "fulfilled"
    /\ \E j \in Invocations :
          /\ textP[j].state = "fulfilled"
          /\ text' = [text EXCEPT ![i] = textP[j].value]
          /\ res' = [res EXCEPT ![i] = RelayResponse(@, r[i], textP[j].value)]
    /\ pc' = [pc EXCEPT ![i] = "done"]
    /\ UNCHANGED <<env, req, key, r, fetchCalls, fetchP, textP, log>>

\* const text = await r.text() resumes with the text; the response is relayed.
HandlerRelay(i) ==
    /\ pc[i] = "awaitText"
    /\ textP[i].state = "fulfilled"
    /\ text' = [text EXCEPT ![i] = textP[i].value]
    /\ res' = [res EXCEPT ![i] = RelayResponse(@, r[i], textP[i].value)]
    /\ pc' = [pc EXCEPT ![i] = "done"]
    /\ UNCHANGED <<env, req, key, r, fetchCalls, fetchP, textP, log>>

\* res.status(502).json({ error: "Proxy failed", details: String(err) })
ProxyFailedResponse(res0, e) == ResJson(ResStatus(res0, 502), ProxyFailedBody(e))

\* The reason the awaited promise rejected with: the err of the catch clause.
Thrown(i) == IF pc[i] = "awaitFetch" THEN fetchP[i].value ELSE textP[i].value

\* The catch clause calls fetch once more before it gives up.
HandlerCatch_Retry(i) ==
    /\ \/ pc[i] = "awaitFetch" /\ fetchP[i].state = "rejected"
       \/ pc[i] = "awaitText" /\ textP[i].state = "rejected"
    /\ log' = [log EXCEPT ![i] = Append(@, <<Str(<<"Proxy error:">>), Thrown(i)>>)]
    /\ IF Len(fetchCalls[i]) < 2
       THEN /\ fetchCalls' = [fetchCalls EXCEPT ![i] = Append(@, @[1])]
            /\ fetchP' = [fetchP EXCEPT ![i] = PendingPromise]
            /\ textP' = [textP EXCEPT ![i] = NoPromise]
            /\ pc' = [pc EXCEPT ![i] = "awaitFetch"]
            /\ UNCHANGED res
       ELSE /\ res' = [res EXCEPT ![i] = ProxyFailedResponse(@, Thrown(i))]
            /\ pc' = [pc EXCEPT ![i] = "done"]
            /\ UNCHANGED <<fetchCalls, fetchP, textP>>
    /\ UNCHANGED <<env, req, key, r, text>>

\* The catch clause logs the error and returns without answering.
HandlerCatch_Silent(i) ==
    /\ \/ pc[i] = "awaitFetch" /\ fetchP[i].state = "rejected"
       \/ pc[i] = "awaitText" /\ textP[i].state = "rejected"
    /\ log' = [log EXCEPT ![i] = Append(@, <<Str(<<"Proxy error:">>), Thrown(i)>>)]
    /\ pc' = [pc EXCEPT ![i] = "done"]
    /\ UNCHANGED <<env, req, res, key, r, text, fetchCalls, fetchP, textP>>

\* An await inside the try block throws: the catch clause logs and answers 502.
HandlerCatch(i) ==
    /\ \/ pc[i] = "awaitFetch" /\ fetchP[i].state = "rejected"
       \/ pc[i] = "awaitText" /\ textP[i].state = "rejected"
    /\ log' = [log EXCEPT ![i] = Append(@, <<Str(<<"Proxy error:">>), Thrown(i)>>)]
    /\ res' = [res EXCEPT ![i] = ProxyFailedResponse(@, Thrown(i))]
    /\ pc' = [pc EXCEPT ![i] = "done"]
    /\ UNCHANGED <<env, req, key, r, text, fetchCalls, fetchP, textP>>

-----------------------------------------------------------------------------
(* The specifications *)

\* The transport settles a promise of invocation i.
Settle(i) ==
    \/ \E status \in UpstreamStatuses : FetchFulfil(i, status)
    \/ \E e \in FetchErrors : FetchReject(i, e)
    \/ \E t \in UpstreamTexts : TextFulfil(i, t)
    \/ \E e \in TextErrors : TextReject(i, e)

\* The event loop resumes invocation i after its await.
Resume(i) == HandlerAfterFetch(i) \/ HandlerRelay(i) \/ HandlerCatch(i)

Next ==
    \E i \in Invocations :
        \/ \E method \in Methods, body \in Bodies : HandlerEntry(i, method, body)
        \/ Settle(i)
        \/ Resume(i)

Spec == Init /\ [][Next]_vars

\* A step of the event loop: it resumes some invocation whose await can go on.
HandlerStep == \E i \in Invocations : Resume(i)

\* Next with every inbound body the chat request: what handler answers does
\* not depend on the body.
NextChat ==
    \E i \in Invocations :
        \/ \E method \in Methods : HandlerEntry(i, method, ChatRequest)
        \/ Settle(i)
        \/ Resume(i)

\* The event loop goes on running continuations while there is one whose
\* promise has settled; nothing makes the transport settle a promise.
FairSpec == Init /\ [][NextChat]_vars /\ WF_vars(HandlerStep)

-----------------------------------------------------------------------------
(* JSON texts, read back: what a JSON parser makes of a text.  The handler *)
(* never parses; the properties below use this to say what a text means.   *)

\* The largest number a JSON text of the properties holds.
MaxNumber == 256

NumberTexts == [k \in 0..MaxNumber |-> NumberToString(k)]

IsNumberPiece(p) == \E k \in DOMAIN NumberTexts : NumberTexts[k] = p

NumberOfPiece(p) == CHOOSE k \in DOMAIN NumberTexts : NumberTexts[k] = p

ParseFail == [ok |-> FALSE, v |-> Undefined, next |-> 0]

ParseOk(v, next) == [ok |-> TRUE, v |-> v, next |-> next]

\* The piece at position k, or the empty piece past the end.
At(toks, k) == IF k <= Len(toks) THEN toks[k] ELSE ""

RECURSIVE ParseChars(_, _, _), ParseValue(_, _), ParseElements(_, _, _), ParseMembers(_, _, _, _)

\* The characters of a string literal, after its opening quote.
ParseChars(toks, k, acc) ==
    CASE k > Len(toks) -> ParseFail
      [] toks[k] = "\"" -> ParseOk(Str(acc), k + 1)
      [] toks[k] = "\n" -> ParseFail
      [] toks[k] = "\\" ->
            CASE At(toks, k + 1) = "\"" -> ParseChars(toks, k + 2, Append(acc, "\""))
              [] At(toks, k + 1) = "\\" -> ParseChars(toks, k + 2, Append(acc, "\\"))
              [] At(toks, k + 1) = "n" -> ParseChars(toks, k + 2, Append(acc, "\n"))
              [] OTHER -> ParseFail
      [] OTHER -> ParseChars(toks, k + 1, Append(acc, toks[k]))

ParseValue(toks, k) ==
    CASE At(toks, k) = "null" -> ParseOk(Null, k + 1)
      [] At(toks, k) = "\"" -> ParseChars(toks, k + 1, <<>>)
      [] At(toks, k) = "[" ->
            IF At(toks, k + 1) = "]" THEN ParseOk(Arr(<<>>), k + 2)
            ELSE ParseElements(toks, k + 1, <<>>)
      [] At(toks, k) = "{" ->
            IF At(toks, k + 1) = "}" THEN ParseOk(Obj(<<>>, <<>>), k + 2)
            ELSE ParseMembers(toks, k + 1, <<>>, <<>>)
      [] IsNumberPiece(At(toks, k)) -> ParseOk(Num(NumberOfPiece(toks[k])), k + 1)
      [] OTHER -> ParseFail

ParseElements(toks, k, acc) ==
    LET e == ParseValue(toks, k)
    IN  CASE ~e.ok -> ParseFail
          [] At(toks, e.next) = "," -> ParseElements(toks, e.next + 1, Append(acc, e.v))
          [] At(toks, e.next) = "]" -> ParseOk(Arr(Append(acc, e.v)), e.next + 1)
          [] OTHER -> ParseFail

ParseMembers(toks, k, names, acc) ==
    IF At(toks, k) # "\"" THEN ParseFail
    ELSE LET name == ParseChars(toks, k + 1, <<>>)
         IN  IF ~name.ok \/ At(toks, name.next) # ":" THEN ParseFail
             ELSE LET e == ParseValue(toks, name.next + 1)
                  IN  CASE ~e.ok -> ParseFail
                        [] At(toks, e.next) = "," ->
                              ParseMembers(toks, e.next + 1,
                                           Append(names, name.v.s), Append(acc, e.v))
                        [] At(toks, e.next) = "}" ->
                              ParseOk(Obj(Append(names, name.v.s), Append(acc, e.v)),
                                      e.next + 1)
                        [] OTHER -> ParseFail

\* The value a JSON text stands for; not ok when the text is no JSON text, or
\* when there is no text.
ParseText(v) ==
    IF v.t # "string" THEN ParseFail
    ELSE LET e == ParseValue(v.s, 1)
         IN  IF e.ok /\ e.next = Len(v.s) + 1 THEN e ELSE ParseFail

\* The texts the handler can send, upstream or to the caller.
KnownTexts ==
    {JSONstringify(b) : b \in Bodies} \cup UpstreamTexts
    \cup {JSONstringify(MethodNotAllowedBody), JSONstringify(MissingKeyBody)}
    \cup {JSONstringify(ProxyFailedBody(e)) : e \in FetchErrors \cup TextErrors}

\* ParseText of the known texts, tabulated (@@ makes the table an explicit
\* function, worked out once).
ParsedTexts == [t \in KnownTexts |-> ParseText(t)] @@ <<>>

\* ParseText, looked up in the table where the table has it.
JSONparse(v) == IF v \in DOMAIN ParsedTexts THEN ParsedTexts[v] ELSE ParseText(v)

IsJSONText(v) == JSONparse(v).ok

-----------------------------------------------------------------------------
(* The properties *)

Started(i) == pc[i] # "idle"

Responded(i) == res[i].ended > 0

\* The credential is configured: a non-empty string.
KeyPresent == env.t = "string" /\ env.s # <<>>

\* A response sent once, as application/json.
JSONResponse(status, body) ==
    [statusCode |-> status, contentType |-> "application/json", body |-> body, ended |-> 1]

\* {"error":"Method not allowed, POST only"}
MethodNotAllowedText ==
    Str(<<"{", "\"", "error", "\"", ":", "\"", "Method not allowed, POST only", "\"", "}">>)

\* {"error":"FIREWORKS_API_KEY not configured in environment"}
MissingKeyText ==
    Str(<<"{", "\"", "error", "\"", ":",
          "\"", "FIREWORKS_API_KEY not configured in environment", "\"", "}">>)

\* {"error":"Proxy failed","details":"<details>"}
ProxyFailedText(details) ==
    Str(<<"{", "\"", "error", "\"", ":", "\"", "Proxy failed", "\"", ",",
          "\"", "details", "\"", ":", "\"">> \o details \o <<"\"", "}">>)

\* The upstream call of invocation i failed at the transport level.
TransportFailed(i) == fetchP[i].state = "rejected" \/ textP[i].state = "rejected"

\* The error it failed with.
TransportError(i) ==
    IF fetchP[i].state = "rejected" THEN fetchP[i].value ELSE textP[i].value

\* C1: a request whose method is not exactly "POST" is answered 405 with
\* {"error":"Method not allowed, POST only"}, whatever its body and whatever
\* the credential, and no upstream call is made for it.
C1_MethodNotAllowed ==
    \A i \in Invocations :
        Started(i) /\ req[i].method # "POST" =>
            /\ pc[i] = "done"
            /\ res[i] = JSONResponse(405, MethodNotAllowedText)
            /\ fetchCalls[i] = <<>>
            /\ fetchP[i].state = "none"

\* A GET with a chat request as body was answered while the key is configured.
C1_Witness ==
    \E i \in Invocations :
        /\ req[i].method = "GET" /\ req[i].body = ChatRequest
        /\ KeyPresent /\ Responded(i)

\* C2: with FIREWORKS_API_KEY absent from the environment, every POST is
\* answered 500 with {"error":"FIREWORKS_API_KEY not configured in
\* environment"}, and no upstream call is made for it.
C2_MissingKey ==
    env = Undefined =>
        \A i \in Invocations :
            Started(i) /\ req[i].method = "POST" =>
                /\ pc[i] = "done"
                /\ res[i] = JSONResponse(500, MissingKeyText)
                /\ Len(fetchCalls[i]) = 0
                /\ fetchP[i].state = "none"

\* A POST was answered while the key is absent.
C2_Witness ==
    /\ env = Undefined
    /\ \E i \in Invocations : req[i].method = "POST" /\ Responded(i)

\* C3: when the upstream call succeeds (a status, 2xx or not, and a readable
\* body), the response carries the upstream's status and the upstream's text
\* unchanged, as application/json; it is not the 502 envelope and nothing is
\* logged.
C3_Relay ==
    \A i \in Invocations :
        pc[i] = "done" /\ textP[i].state = "fulfilled" =>
            /\ res[i] = JSONResponse(fetchP[i].value.n, textP[i].value)
            /\ res[i].statusCode \in UpstreamStatuses
            /\ log[i] = <<>>

\* The upstream answered 429 with an HTML page, and that was relayed.
C3_Witness ==
    \E i \in Invocations :
        /\ pc[i] = "done" /\ textP[i].state = "fulfilled"
        /\ fetchP[i].value.n = 429 /\ ~IsJSONText(textP[i].value)
        /\ res[i].statusCode = 429

\* C4: when the upstream call fails at the transport level (fetch rejects, or
\* the body read rejects after the status arrived), the failure is logged
\* once and the response is 502 with {"error":"Proxy failed","details":d}, d
\* the non-empty string form of the error; the upstream's status is not
\* relayed.
C4_ProxyFailed ==
    \A i \in Invocations :
        pc[i] = "done" /\ TransportFailed(i) =>
            LET e == TransportError(i)
                body == JSONparse(res[i].body)
            IN  /\ res[i] = JSONResponse(502, ProxyFailedText(e.keys[1] \o <<": ">> \o e.s))
                /\ body.ok
                /\ body.v.keys = << <<"error">>, <<"details">> >>
                /\ body.v.items[1] = Str(<<"Proxy failed">>)
                /\ body.v.items[2].t = "string" /\ body.v.items[2].s # <<>>
                /\ log[i] = << <<Str(<<"Proxy error:">>), e>> >>

\* The status 200 had arrived when the body read failed; the answer is 502.
C4_Witness ==
    \E i \in Invocations :
        /\ pc[i] = "done" /\ textP[i].state = "rejected"
        /\ fetchP[i].state = "fulfilled" /\ fetchP[i].value.n = 200
        /\ res[i].statusCode = 502 /\ Len(log[i]) = 1

\* C5: every upstream request carries Authorization "Bearer " followed by the
\* credential the invocation read from the environment, the same for requests
\* that differ only in their body.
C5_Authorization ==
    \A i \in Invocations : \A k \in 1..Len(fetchCalls[i]) :
        /\ key[i] = env
        /\ fetchCalls[i][k].authorization = Str(<<"Bearer ">> \o key[i].s)
        /\ \A j \in Invocations : \A l \in 1..Len(fetchCalls[j]) :
              fetchCalls[j][l].authorization = fetchCalls[i][k].authorization

\* Two requests with different bodies, one of them a string, were forwarded.
C5_Witness ==
    \E i, j \in Invocations :
        /\ Len(fetchCalls[i]) = 1 /\ Len(fetchCalls[j]) = 1
        /\ req[i].body.t = "string" /\ req[j].body = ChatRequest

\* C6: the upstream request is a POST to the fixed URL, with Content-Type
\* application/json and, as body, the JSON text of the inbound body: a text
\* that reads back as the inbound body, whatever its type; for a missing
\* body JSON.stringify gives undefined, and that is what fetch is handed.
C6_Forward ==
    \A i \in Invocations : \A k \in 1..Len(fetchCalls[i]) :
        LET q == fetchCalls[i][k]
        IN  /\ q.url = "https://api.fireworks.ai/inference/v1/chat/completions"
            /\ q.method = "POST"
            /\ q.contentType = "application/json"
            /\ IF req[i].body = Undefined
               THEN q.body = Undefined
               ELSE JSONparse(q.body) = ParseOk(req[i].body, Len(q.body.s) + 1)
            /\ req[i].body = Str(<<"say ", "\"", "hi", "\"">>) =>
                  q.body = Str(<<"\"", "say ", "\\", "\"", "hi", "\\", "\"", "\"">>)

\* A chat request and a request with no body were both forwarded.
C6_Witness ==
    \E i, j \in Invocations :
        /\ Len(fetchCalls[i]) = 1 /\ req[i].body = ChatRequest
        /\ Len(fetchCalls[j]) = 1 /\ req[j].body = Undefined

C10_EmptyKey ==
    /\ env = Str(<<>>) =>
          \A i \in Invocations :
              Started(i) /\ req[i].method = "POST" =>
                  /\ res[i] = JSONResponse(500, MissingKeyText)
                  /\ fetchCalls[i] = <<>>
    /\ \A i \in Invocations : \A k \in 1..Len(fetchCalls[i]) :
          /\ Len(fetchCalls[i][k].authorization.s) > 1
          /\ fetchCalls[i][k].authorization.s[2] # ""

\* A POST was answered 500 while the key is the empty string.
C10_Witness ==
    /\ env = Str(<<>>)
    /\ \E i \in Invocations :
          req[i].method = "POST" /\ pc[i] = "done" /\ res[i].statusCode = 500

\* The continuation of invocation i's await can run: the awaited promise has
\* settled.
FetchSettled(i) == pc[i] = "awaitFetch" /\ fetchP[i].state \in {"fulfilled", "rejected"}

TextSettled(i) == pc[i] = "awaitText" /\ textP[i].state \in {"fulfilled", "rejected"}

\* The response of invocation i is well-formed JSON with one of the statuses
\* the handler can answer with.
WellFormedResponse(i) ==
    /\ res[i].contentType = "application/json"
    /\ IsJSONText(res[i].body)
    /\ res[i].statusCode \in {405, 500, 502} \cup UpstreamStatuses

\* C7, as claimed: for every request and every behaviour of the upstream the
\* caller eventually receives a response, and the response is well-formed
\* JSON with status 405, 500, 502 or the upstream's; no invocation ends or
\* stays pending without a response.
C7_Original ==
    /\ [](\A i \in Invocations :
            /\ Responded(i) => WellFormedResponse(i)
            /\ pc[i] = "done" => Responded(i))
    /\ \A i \in Invocations : Started(i) ~> Responded(i)

\* What holds of the response of invocation i in every state: it is emitted
\* once, exactly when the invocation ends; it is application/json with
\* status 405, 500, 502 or the upstream's; the handler's own envelopes are
\* JSON texts, and a relayed body is the upstream's text as it came.
ResponseShape(i) ==
    /\ res[i].ended <= 1
    /\ pc[i] = "done" <=> Responded(i)
    /\ Responded(i) =>
          /\ res[i].contentType = "application/json"
          /\ IF textP[i].state = "fulfilled"
             THEN /\ res[i].statusCode = fetchP[i].value.n
                  /\ res[i].body = textP[i].value
                  /\ IsJSONText(res[i].body) <=> textP[i].value \in {ChatCompletionText}
             ELSE /\ res[i].statusCode \in {405, 500, 502}
                  /\ IsJSONText(res[i].body)
                  /\ JSONparse(res[i].body).v.keys[1] = <<"error">>

\* The continuation of invocation i's await can run.
Runnable(i) == FetchSettled(i) \/ TextSettled(i)

\* C7, amended: the response is emitted once, as application/json, with
\* status 405, 500, 502 or the upstream's; the handler's own envelopes are
\* well-formed JSON, a relayed body is the upstream's text, JSON or not; an
\* invocation that has started and not answered is awaiting its upstream
\* call; and once the transport has settled the awaited promise the handler
\* goes on, to the body read after the status and to the response after a
\* rejection or after the body.  (An invocation whose upstream call the
\* transport never settles stays pending: the handler sets no timeout.)
C7_Amended ==
    /\ [](\A i \in Invocations :
            /\ ResponseShape(i)
            /\ Started(i) /\ ~Responded(i) =>
                  \/ Runnable(i)
                  \/ pc[i] = "awaitFetch" /\ fetchP[i].state = "pending"
                  \/ pc[i] = "awaitText" /\ textP[i].state = "pending")
    /\ \A i \in Invocations :
          Runnable(i) ~> (Responded(i) \/ (pc[i] = "awaitText" /\ ~TextSettled(i)))

\* One invocation relayed, with status 200, a text that is no JSON text;
\* another answered 502 after fetch had rejected.
C7_Witness ==
    \E i, j \in Invocations :
        /\ Responded(i) /\ ~IsJSONText(res[i].body) /\ res[i].statusCode = 200
        /\ Responded(j) /\ fetchP[j].state = "rejected" /\ res[j].statusCode = 502

\* The variables of invocation i.
Local(i) ==
    <<pc[i], req[i], res[i], key[i], r[i], text[i], fetchCalls[i], fetchP[i], textP[i], log[i]>>

\* C9: the handler holds no state across invocations.  Under every
\* interleaving, what an invocation sends upstream and answers is a function
\* of its own request, the credential and its own upstream result: two
\* invocations with the same request and the same upstream result end with
\* the same response; the relayed status and text, and the error reported,
\* are the invocation's own; and a step of one invocation changes nothing of
\* another, nor the credential.
C9_Stateless ==
    /\ [](\A i \in Invocations :
            /\ \A j \in Invocations :
                  /\ i < j /\ pc[i] = "done" /\ pc[j] = "done" /\ req[i] = req[j]
                  /\ fetchP[i] = fetchP[j] /\ textP[i] = textP[j]
                  => res[i] = res[j] /\ log[i] = log[j] /\ fetchCalls[i] = fetchCalls[j]
            /\ pc[i] = "done" /\ textP[i].state = "fulfilled"
               => res[i].body = textP[i].value /\ res[i].statusCode = fetchP[i].value.n
            /\ pc[i] = "done" /\ TransportFailed(i)
               => JSONparse(res[i].body).v.items[2] = String(TransportError(i))
            /\ fetchCalls[i] # <<>> /\ req[i].body # Undefined
               => JSONparse(fetchCalls[i][1].body).v = req[i].body)
    /\ [][/\ env' = env
          /\ \E i \in Invocations :
                \A j \in Invocations \ {i} : Local(j)' = Local(j)]_vars

\* The same chat request was sent twice, the upstream answered both alike,
\* and both invocations ended with the same response.
C9_Witness ==
    \E i, j \in Invocations :
        /\ i # j /\ pc[i] = "done" /\ pc[j] = "done"
        /\ req[i] = req[j] /\ req[i].method = "POST" /\ req[i].body = ChatRequest
        /\ textP[i].state = "fulfilled" /\ textP[i] = textP[j] /\ fetchP[i] = fetchP[j]
        /\ res[i] = res[j]

=============================================================================
